---------------------------- MODULE Spec2Model ----------------------------
(***************************************************************************)
(* A model of jsonappender (src/jsonappender.go): the append-style JSON    *)
(* encoders (Int64, Uint64, Bool, Time, Float64, String, FieldName, Value, *)
(* Object, Array) and the BufWriter wrapper with its sticky Error.         *)
(*                                                                         *)
(* Byte slices and strings are sequences of byte values (0..255).  Go      *)
(* indices are 0-based and are kept 0-based here: element i of a Go slice  *)
(* x is x[i+1] in the model.  A nil slice and an empty slice are both <<>>.*)
(*                                                                         *)
(* Three specifications share the module:                                  *)
(*   StringSpec  the scan loop of String, one action per loop iteration;   *)
(*   EncSpec     one call of a stateless encoder on a bounded input;       *)
(*   BWSpec      sequences of BufWriter operations over a failing sink.    *)
(***************************************************************************)
EXTENDS Integers, Sequences, FiniteSets, TLC

\* ------------------------------------------------------------------ bounds
\* Longest input of String, in elements (code points or invalid bytes).
MaxLen == 3
\* Loop iterations of String the model follows beyond len(s).
MaxExtra == 2
\* Longest Array / Object the encoders are called on.
MaxEntries == 2
\* Longest sequence of BufWriter operations.
MaxOps == 3

VARIABLES
    \* String's scan loop (StringSpec)
    elems,      \* the input as a sequence of elements (ghost)
    s,          \* the input string: the elements' bytes
    prefix,     \* the buffer passed in (ghost)
    buf,        \* String's buf
    i,          \* String's i
    start,      \* String's start
    pc,         \* "idle" | "entry" | "loop" | "done"
    iters,      \* loop iterations performed (ghost)
    \* one encoder call (EncSpec)
    call,       \* the last call: function, arguments, result
    \* BufWriter (BWSpec)
    Error,      \* bw.Error
    writer,     \* bw.writer: "nil" | "bound"
    stringBuf,  \* bw.stringBuf
    sink,       \* the bytes bw.writer has accepted
    flushCalls, \* calls of bw.writer.Flush
    ret,        \* what the last Flush returned
    last,       \* the last operation (ghost)
    nops        \* operations performed (ghost)

stringVars == <<elems, s, prefix, buf, i, start, pc, iters>>
bwVars == <<Error, writer, stringBuf, sink, flushCalls, ret, last, nops>>
vars == <<elems, s, prefix, buf, i, start, pc, iters, call,
          Error, writer, stringBuf, sink, flushCalls, ret, last, nops>>

\* ------------------------------------------------------------ byte helpers
Min(a, b) == IF a < b THEN a ELSE b
Max(a, b) == IF a > b THEN a ELSE b

\* x[lo:hi] of Go, 0-based, hi exclusive.
Slice(x, lo, hi) == SubSeq(x, lo + 1, hi)

RECURSIVE Flatten(_)
Flatten(ss) == IF ss = <<>> THEN <<>> ELSE Head(ss) \o Flatten(Tail(ss))

IsPrefix(p, x) == Len(p) <= Len(x) /\ SubSeq(x, 1, Len(p)) = p

\* utf8.RuneSelf: bytes below it are single-byte code points.
RuneSelf == 128
\* utf8.RuneError, U+FFFD.
RuneError == 65533

\* const hex = "0123456789abcdef"; hex[x] for x in 0..15.
hex(x) == IF x < 10 THEN 48 + x ELSE 87 + x

\* htmlSafeSet[b] for b < utf8.RuneSelf: true except for the control
\* characters 0-31 and for " & < > \ .
htmlSafeSet(b) == b >= 32 /\ b \notin {34, 38, 60, 62, 92}

\* A UTF-8 continuation byte.
IsCont(b) == b >= 128 /\ b <= 191

\* utf8.DecodeRuneInString(x) for a non-empty x: the code point and its
\* width; (RuneError, 1) for an encoding that is invalid, truncated,
\* overlong, a surrogate or out of range.
DecodeRuneInString(x) ==
    LET n == Len(x)
        b0 == x[1]
        bad == [c |-> RuneError, size |-> 1]
    IN  IF b0 < RuneSelf THEN [c |-> b0, size |-> 1]
        ELSE IF b0 >= 194 /\ b0 <= 223 THEN
            IF n >= 2 /\ IsCont(x[2])
            THEN [c |-> (b0 % 32) * 64 + (x[2] % 64), size |-> 2]
            ELSE bad
        ELSE IF b0 >= 224 /\ b0 <= 239 THEN
            LET lo == IF b0 = 224 THEN 160 ELSE 128
                hi == IF b0 = 237 THEN 159 ELSE 191
            IN  IF n >= 3 /\ x[2] >= lo /\ x[2] <= hi /\ IsCont(x[3])
                THEN [c |-> (b0 % 16) * 4096 + (x[2] % 64) * 64 + (x[3] % 64),
                      size |-> 3]
                ELSE bad
        ELSE IF b0 >= 240 /\ b0 <= 244 THEN
            LET lo == IF b0 = 240 THEN 144 ELSE 128
                hi == IF b0 = 244 THEN 143 ELSE 191
            IN  IF n >= 4 /\ x[2] >= lo /\ x[2] <= hi /\ IsCont(x[3]) /\ IsCont(x[4])
                THEN [c |-> (b0 % 8) * 262144 + (x[2] % 64) * 4096
                             + (x[3] % 64) * 64 + (x[4] % 64),
                      size |-> 4]
                ELSE bad
        ELSE bad

\* ------------------------------------------------------------------ String
\* One iteration of String's scan loop, from loop state st = [i, start, buf]
\* with st.i < len(s).
StringIter(str, st) ==
    LET b == str[st.i + 1]
        \* if start < i { buf = append(buf, s[start:i]...) }
        copied == IF st.start < st.i
                  THEN st.buf \o Slice(str, st.start, st.i)
                  ELSE st.buf
    IN  IF b < RuneSelf THEN
            IF htmlSafeSet(b)
            THEN [st EXCEPT !.i = st.i + 1]
            ELSE LET esc == CASE b = 92 \/ b = 34 -> <<92, b>>
                              [] b = 10 -> <<92, 110>>
                              [] b = 13 -> <<92, 114>>
                              [] b = 9 -> <<92, 116>>
                              [] OTHER -> <<92, 117, 48, 48,
                                            hex(b \div 16), hex(b % 16)>>
                 IN  [i |-> st.i + 1, start |-> st.i + 1, buf |-> copied \o esc]
        ELSE LET d == DecodeRuneInString(Slice(str, st.i, Len(str)))
             IN  IF d.c = RuneError /\ d.size = 1
                 THEN [i |-> st.i + d.size, start |-> st.i + d.size,
                       buf |-> copied \o <<92, 117, 102, 102, 102, 100>>]
                 ELSE IF d.c = 8232 \/ d.c = 8233
                 \* the branch sets start = i and continues; i is not advanced
                 THEN [i |-> st.i, start |-> st.i,
                       buf |-> copied \o <<92, 117, 50, 48, 50, hex(d.c % 16)>>]
                 ELSE [st EXCEPT !.i = st.i + d.size]

\* Whether the scan loop, from st, reaches i >= len(s): every iteration on
\* the way advances i.
RECURSIVE ScanReturns(_, _)
ScanReturns(str, st) ==
    IF st.i >= Len(str) THEN TRUE
    ELSE LET nx == StringIter(str, st) IN nx.i > st.i /\ ScanReturns(str, nx)

\* The loop state when the scan loop exits.  For a scan that does not return
\* this is the state at which i stops advancing; callers guard with
\* StringReturns.
RECURSIVE StringLoop(_, _)
StringLoop(str, st) ==
    IF st.i < Len(str) /\ StringIter(str, st).i > st.i
    THEN StringLoop(str, StringIter(str, st))
    ELSE st

\* The statements after the loop: the last run is copied and the quote closed.
StringTail(str, st) ==
    (IF st.start < Len(str)
     THEN st.buf \o Slice(str, st.start, Len(str))
     ELSE st.buf) \o <<34>>

StringReturns(str) == ScanReturns(str, [i |-> 0, start |-> 0, buf |-> <<>>])

\* String(s, buf)
String(str, b) ==
    StringTail(str, StringLoop(str, [i |-> 0, start |-> 0, buf |-> b \o <<34>>]))

\* FieldName(name, buf)
FieldName(name, b) == String(name, b) \o <<58>>

\* ------------------------------------------------------ scalar encoders
\* The decimal digits of n >= 0, as bytes.
RECURSIVE Digits(_)
Digits(n) == IF n < 10 THEN <<48 + n>> ELSE Digits(n \div 10) \o <<48 + (n % 10)>>

\* strconv.FormatInt(val, 10)
FormatInt(val) == IF val < 0 THEN <<45>> \o Digits(-val) ELSE Digits(val)

\* strconv.FormatUint(val, 10)
FormatUint(val) == Digits(val)

\* Int64(val, buf)
Int64(val, b) == b \o FormatInt(val)

\* Uint64(val, buf)
Uint64(val, b) == b \o FormatUint(val)

\* Bool(val, buf)
Bool(val, b) == IF val THEN b \o <<116, 114, 117, 101>>
                ELSE b \o <<102, 97, 108, 115, 101>>

\* n >= 0 in decimal, zero-padded to at least w digits.
RECURSIVE Pad(_, _)
Pad(n, w) == IF w <= 1 THEN Digits(n)
             ELSE Pad(n \div 10, w - 1) \o <<48 + (n % 10)>>

RECURSIVE TrimZeros(_)
TrimZeros(ds) == IF ds # <<>> /\ ds[Len(ds)] = 48
                 THEN TrimZeros(SubSeq(ds, 1, Len(ds) - 1))
                 ELSE ds

\* t.AppendFormat(buf, time.RFC3339Nano) for a time t = [year, month, day,
\* hour, min, sec, nsec, off] (off: the zone offset in minutes) with
\* 0 <= year <= 9999: the fraction loses its trailing zeros, the zone is Z
\* for UTC and +hh:mm or -hh:mm otherwise.
AppendFormat(b, t) ==
    LET frac == IF t.nsec = 0 THEN <<>> ELSE <<46>> \o TrimZeros(Pad(t.nsec, 9))
        a == IF t.off < 0 THEN -t.off ELSE t.off
        zone == IF t.off = 0 THEN <<90>>
                ELSE <<(IF t.off < 0 THEN 45 ELSE 43)>>
                     \o Pad(a \div 60, 2) \o <<58>> \o Pad(a % 60, 2)
    IN  b \o Pad(t.year, 4) \o <<45>> \o Pad(t.month, 2) \o <<45>> \o Pad(t.day, 2)
          \o <<84>> \o Pad(t.hour, 2) \o <<58>> \o Pad(t.min, 2) \o <<58>>
          \o Pad(t.sec, 2) \o frac \o zone

\* Time(t, buf): on a year outside [0, 9999] the code returns nil, not buf.
Time(t, b) ==
    IF t.year < 0 \/ t.year >= 10000
    THEN [buf |-> <<>>, err |-> "year"]
    ELSE [buf |-> AppendFormat(b \o <<34>>, t) \o <<34>>, err |-> "nil"]

\* A float64 is [class, neg, d, dp]: class "nan", "inf" or "fin"; for a
\* finite value d is the digits of its shortest decimal form that round-trips
\* and dp the position of the decimal point, |f| = 0.d1d2...dn * 10^dp
\* (strconv's decimal); zero has no digits and dp = 0.
IsZero(f) == f.d = <<>>
\* abs < 1e-6 and abs >= 1e21, on |f| = d1.d2...dn * 10^(dp-1)
AbsLt1em6(f) == f.dp - 1 < -6
AbsGe1e21(f) == f.dp - 1 >= 21

DigitBytes(ds) == [k \in 1..Len(ds) |-> 48 + ds[k]]
Zeros(n) == [k \in 1..n |-> 48]

\* strconv.AppendFloat(buf, f, 'e', -1, 64): d.ddd e+-dd, the exponent with
\* at least two digits.
FmtE(b, f) ==
    LET nd == Len(f.d)
        first == IF nd = 0 THEN <<48>> ELSE <<48 + f.d[1]>>
        more == IF nd > 1 THEN <<46>> \o DigitBytes(SubSeq(f.d, 2, nd)) ELSE <<>>
        exp == IF nd = 0 THEN 0 ELSE f.dp - 1
        a == IF exp < 0 THEN -exp ELSE exp
    IN  b \o (IF f.neg THEN <<45>> ELSE <<>>) \o first \o more \o <<101>>
          \o <<(IF exp < 0 THEN 45 ELSE 43)>>
          \o (IF a < 10 THEN <<48, 48 + a>> ELSE Digits(a))

\* strconv.AppendFloat(buf, f, 'f', -1, 64): integer part padded with zeros,
\* then the fraction if there is one.
FmtF(b, f) ==
    LET nd == Len(f.d)
        prec == Max(nd - f.dp, 0)
        int == IF f.dp > 0
               THEN DigitBytes(SubSeq(f.d, 1, Min(nd, f.dp)))
                    \o Zeros(f.dp - Min(nd, f.dp))
               ELSE <<48>>
        fracDigit(j) == IF 0 <= j /\ j < nd THEN 48 + f.d[j + 1] ELSE 48
        frac == IF prec > 0
                THEN <<46>> \o [k \in 1..prec |-> fracDigit(f.dp + k - 1)]
                ELSE <<>>
    IN  b \o (IF f.neg THEN <<45>> ELSE <<>>) \o int \o frac

AppendFloat(b, f, format) == IF format = "e" THEN FmtE(b, f) ELSE FmtF(b, f)

\* CleanExponent re-slicing from the buffer's beginning, not from start.
CleanExponentDropsPrefix(b, st) ==
    LET n == Len(b) - st
    IN  IF n >= 4 /\ b[st + n - 4 + 1] = 101 /\ b[st + n - 3 + 1] = 45
           /\ b[st + n - 2 + 1] = 48
        THEN LET b2 == [b EXCEPT ![st + n - 2 + 1] = b[st + n - 1 + 1]]
             IN  Slice(b2, st, st + n - 1)
        ELSE b

\* The clean-up of e-0D to e-D on the bytes from the call's start index.
CleanExponent(b, st) ==
    LET n == Len(b) - st
    IN  IF n >= 4 /\ b[st + n - 4 + 1] = 101 /\ b[st + n - 3 + 1] = 45
           /\ b[st + n - 2 + 1] = 48
        THEN LET b2 == [b EXCEPT ![st + n - 2 + 1] = b[st + n - 1 + 1]]
             \* buf = append(buf[:start], buf[start:start+n-1]...)
             IN  Slice(b2, 0, st) \o Slice(b2, st, st + n - 1)
        ELSE b

\* Float64 returning nil, as Time does, for a value it rejects.
Float64NilOnError(f, b) ==
    IF f.class = "inf" \/ f.class = "nan"
    THEN [buf |-> <<>>, err |-> "float"]
    ELSE LET format == IF ~IsZero(f) /\ (AbsLt1em6(f) \/ AbsGe1e21(f))
                       THEN "e" ELSE "f"
             st == Len(b)
             b1 == AppendFloat(b, f, format)
         IN  [buf |-> IF format = "e" THEN CleanExponent(b1, st) ELSE b1,
              err |-> "nil"]

\* Float64(f, buf)
Float64(f, b) ==
    IF f.class = "inf" \/ f.class = "nan"
    THEN [buf |-> b, err |-> "float"]
    ELSE LET format == IF ~IsZero(f) /\ (AbsLt1em6(f) \/ AbsGe1e21(f))
                       THEN "e" ELSE "f"
             st == Len(b)
             b1 == AppendFloat(b, f, format)
         IN  [buf |-> IF format = "e" THEN CleanExponent(b1, st) ELSE b1,
              err |-> "nil"]

\* ------------------------------------------------- Value, Object, Array
(***************************************************************************)
(* A value of interface{} is a record with its dynamic type:               *)
(*   [type |-> "string", v |-> bytes]      [type |-> "float64", v |-> f]   *)
(*   [type |-> "int64" | "int" | "uint64" | "uint" | "int8" | "int16" |    *)
(*             "int32" | "uint8" | "uint16" | "uint32", v |-> n]           *)
(*   [type |-> "time.Time", v |-> t]       [type |-> "bool", v |-> b]      *)
(*   [type |-> "nil"]                                                      *)
(*   [type |-> "map", v |-> <<k1, v1>>, <<k2, v2>>, ...]: the entries of a *)
(*       map[string]interface{} in the order range visits them (any order  *)
(*       of the keys, each key once);                                      *)
(*   [type |-> "slice", v |-> <<v1, v2, ...>>]: a []interface{};           *)
(*   [type |-> "custom", appender, marshaler, out, err]: a caller's type   *)
(*       that may implement JSONAppender and json.Marshaler; out and err   *)
(*       are the bytes it produces and the error it returns.               *)
(***************************************************************************)

\* Go's integer types.
SignedTypes == {"int8", "int16", "int32", "int64", "int"}
UnsignedTypes == {"uint8", "uint16", "uint32", "uint64", "uint"}

\* ValueCase with the case for int left out of the switch.
ValueCaseNoInt(val) ==
    IF val.type \in {"string", "float64", "int64", "uint64", "uint",
                     "time.Time", "map", "slice"}
    THEN val.type
    ELSE IF val.type = "custom" /\ val.appender THEN "JSONAppender"
    ELSE IF val.type = "custom" /\ val.marshaler THEN "json.Marshaler"
    ELSE "default"

\* The case of Value's type switch that val takes, in the switch's order.
ValueCase(val) ==
    IF val.type \in {"string", "float64", "int64", "int", "uint64", "uint",
                     "time.Time", "map", "slice"}
    THEN val.type
    ELSE IF val.type = "custom" /\ val.appender THEN "JSONAppender"
    ELSE IF val.type = "custom" /\ val.marshaler THEN "json.Marshaler"
    ELSE "default"

\* json.Marshal(val) for the values that reach the fallback.
JsonMarshal(val) ==
    IF val.type \in SignedTypes
    THEN [bb |-> FormatInt(val.v), err |-> "nil"]
    ELSE IF val.type \in UnsignedTypes
    THEN [bb |-> FormatUint(val.v), err |-> "nil"]
    ELSE IF val.type = "bool" THEN [bb |-> Bool(val.v, <<>>), err |-> "nil"]
    ELSE IF val.type = "nil" THEN [bb |-> <<110, 117, 108, 108>>, err |-> "nil"]
    ELSE [bb |-> val.out, err |-> val.err]

RECURSIVE Value(_, _)
RECURSIVE ObjectLoop(_, _, _, _)
RECURSIVE ArrayLoop(_, _, _, _)

\* ObjectLoop writing the comma without looking at the comma flag.
ObjectLoopCommaFirst(mp, k, comma, b) ==
    IF k >= Len(mp) THEN [buf |-> b \o <<125>>, err |-> "nil"]
    ELSE LET b1 == b \o <<44>>
             b2 == FieldName(mp[k + 1][1], b1)
             r == Value(mp[k + 1][2], b2)
         IN  IF r.err # "nil" THEN r ELSE ObjectLoop(mp, k + 1, TRUE, r.buf)

\* ArrayLoop closing the bracket when an entry fails.
ArrayLoopClosesOnError(slice, k, comma, b) ==
    IF k >= Len(slice) THEN [buf |-> b \o <<93>>, err |-> "nil"]
    ELSE LET b1 == IF comma THEN b \o <<44>> ELSE b
             r == Value(slice[k + 1], b1)
         IN  IF r.err # "nil" THEN [buf |-> r.buf \o <<93>>, err |-> r.err]
             ELSE ArrayLoop(slice, k + 1, TRUE, r.buf)

\* The loop of Object from entry k (0-based) on: for k, v := range mp { ... }
ObjectLoop(mp, k, comma, b) ==
    IF k >= Len(mp) THEN [buf |-> b \o <<125>>, err |-> "nil"]
    ELSE LET b1 == IF comma THEN b \o <<44>> ELSE b
             b2 == FieldName(mp[k + 1][1], b1)
             r == Value(mp[k + 1][2], b2)
         IN  IF r.err # "nil" THEN r ELSE ObjectLoop(mp, k + 1, TRUE, r.buf)

\* Object(mp, buf)
Object(mp, b) == ObjectLoop(mp, 0, FALSE, b \o <<123>>)

\* The loop of Array from index k on: for i := 0; i < len(slice); i++ { ... }
ArrayLoop(slice, k, comma, b) ==
    IF k >= Len(slice) THEN [buf |-> b \o <<93>>, err |-> "nil"]
    ELSE LET b1 == IF comma THEN b \o <<44>> ELSE b
             r == Value(slice[k + 1], b1)
         IN  IF r.err # "nil" THEN r ELSE ArrayLoop(slice, k + 1, TRUE, r.buf)

\* Array(slice, buf)
Array(slice, b) == ArrayLoop(slice, 0, FALSE, b \o <<91>>)

\* Value(val, buf)
Value(val, b) ==
    LET c == ValueCase(val)
    IN  CASE c = "string" -> [buf |-> String(val.v, b), err |-> "nil"]
          [] c = "float64" -> Float64(val.v, b)
          [] c \in {"int64", "int"} -> [buf |-> Int64(val.v, b), err |-> "nil"]
          [] c \in {"uint64", "uint"} -> [buf |-> Uint64(val.v, b), err |-> "nil"]
          [] c = "time.Time" -> Time(val.v, b)
          [] c = "map" -> Object(val.v, b)
          [] c = "slice" -> Array(val.v, b)
          \* return v.AppendJSON(buf)
          [] c = "JSONAppender" -> [buf |-> b \o val.out, err |-> val.err]
          \* bb, err := v.MarshalJSON(); return append(buf, bb...), err
          [] c = "json.Marshaler" -> [buf |-> b \o val.out, err |-> val.err]
          \* bb, err := json.Marshal(val); return append(buf, bb...), err
          [] OTHER -> LET m == JsonMarshal(val)
                      IN  [buf |-> b \o m.bb, err |-> m.err]

\* Whether Value(val, buf) returns.  String does not return on every text;
\* a container's loop reaches an entry only if the entries before it were
\* encoded without error.
RECURSIVE ValueReturns(_)
RECURSIVE EntriesReturn(_, _, _)
EntriesReturn(es, k, isMap) ==
    IF k >= Len(es) THEN TRUE
    ELSE LET v == IF isMap THEN es[k + 1][2] ELSE es[k + 1]
         IN  /\ (IF isMap THEN StringReturns(es[k + 1][1]) ELSE TRUE)
             /\ ValueReturns(v)
             /\ (IF Value(v, <<>>).err = "nil"
                 THEN EntriesReturn(es, k + 1, isMap) ELSE TRUE)

ValueReturns(val) ==
    CASE val.type = "string" -> StringReturns(val.v)
      [] val.type = "map" -> EntriesReturn(val.v, 0, TRUE)
      [] val.type = "slice" -> EntriesReturn(val.v, 0, FALSE)
      [] OTHER -> TRUE

\* ------------------------------------------------- idle parts of the state
\* Each specification leaves the other parts of the state at these values.
NoCall == [fn |-> "none"]
NoOp == [op |-> "none"]

StringIdle ==
    /\ elems = <<>> /\ s = <<>> /\ prefix = <<>> /\ buf = <<>>
    /\ i = 0 /\ start = 0 /\ pc = "idle" /\ iters = 0

EncIdle == call = NoCall

BWIdle ==
    /\ Error = "nil" /\ writer = "nil" /\ stringBuf = <<>> /\ sink = <<>>
    /\ flushCalls = 0 /\ ret = "none" /\ last = NoOp /\ nops = 0

\* --------------------------------------------- StringSpec: the scan loop
\* The elements inputs are built from: one of each class the escaping rules
\* distinguish.
Alphabet ==
    { <<97>>,               \* a : safe ASCII
      <<92>>, <<34>>,       \* backslash, double quote
      <<10>>, <<13>>, <<9>>,\* \n \r \t
      <<1>>, <<31>>,        \* other control bytes
      <<60>>, <<62>>, <<38>>,   \* < > &
      <<255>>,              \* a byte that is not valid UTF-8
      <<226, 128, 168>>,    \* U+2028
      <<226, 128, 169>>,    \* U+2029
      <<195, 169>>,         \* U+00E9, two bytes
      <<239, 191, 189>> }   \* U+FFFD, validly encoded

\* The buffers the encoders are handed.
Prefixes == { <<>>, <<120, 34>> }

SeqsUpTo(S, n) == UNION { [1..k -> S] : k \in 0..n }

StringInit ==
    /\ elems \in SeqsUpTo(Alphabet, MaxLen)
    /\ s = Flatten(elems)
    /\ prefix \in Prefixes
    /\ buf = prefix
    /\ i = 0 /\ start = 0 /\ iters = 0
    /\ pc = "entry"
    /\ EncIdle /\ BWIdle

\* buf = append(buf, '"'); start := 0; i := 0
StringBegin ==
    /\ pc = "entry"
    /\ buf' = buf \o <<34>>
    /\ start' = 0 /\ i' = 0
    /\ pc' = "loop"
    /\ UNCHANGED <<elems, s, prefix, iters, call>> /\ UNCHANGED bwVars

\* One iteration of for i := 0; i < len(s); { ... }
StringStep ==
    /\ pc = "loop"
    /\ i < Len(s)
    /\ iters < Len(s) + MaxExtra
    /\ LET nx == StringIter(s, [i |-> i, start |-> start, buf |-> buf])
       IN  i' = nx.i /\ start' = nx.start /\ buf' = nx.buf
    /\ iters' = iters + 1
    /\ UNCHANGED <<elems, s, prefix, pc, call>> /\ UNCHANGED bwVars

\* The loop condition fails: the last run and the closing quote are appended.
StringExit ==
    /\ pc = "loop"
    /\ i >= Len(s)
    /\ buf' = StringTail(s, [i |-> i, start |-> start, buf |-> buf])
    /\ pc' = "done"
    /\ UNCHANGED <<elems, s, prefix, i, start, iters, call>> /\ UNCHANGED bwVars

StringNext == StringBegin \/ StringStep \/ StringExit

StringSpec == StringInit /\ [][StringNext]_vars

\* The escape the escaping rules give each element of Alphabet.
EscapeOf(e) ==
    CASE e = <<92>> -> <<92, 92>>
      [] e = <<34>> -> <<92, 34>>
      [] e = <<10>> -> <<92, 110>>
      [] e = <<13>> -> <<92, 114>>
      [] e = <<9>> -> <<92, 116>>
      [] e = <<1>> -> <<92, 117, 48, 48, 48, 49>>
      [] e = <<31>> -> <<92, 117, 48, 48, 49, 102>>
      [] e = <<60>> -> <<92, 117, 48, 48, 51, 99>>
      [] e = <<62>> -> <<92, 117, 48, 48, 51, 101>>
      [] e = <<38>> -> <<92, 117, 48, 48, 50, 54>>
      [] e = <<255>> -> <<92, 117, 102, 102, 102, 100>>
      [] e = <<226, 128, 168>> -> <<92, 117, 50, 48, 50, 56>>
      [] e = <<226, 128, 169>> -> <<92, 117, 50, 48, 50, 57>>
      [] OTHER -> e

RECURSIVE EscapeAll(_)
EscapeAll(es) ==
    IF es = <<>> THEN <<>> ELSE EscapeOf(Head(es)) \o EscapeAll(Tail(es))

\* What String is to return for the elements es appended to the buffer p.
Escaped(es, p) == p \o <<34>> \o EscapeAll(es) \o <<34>>

\* C2: String terminates: every iteration of the scan loop strictly advances
\* i, so after k iterations i >= k, and the loop runs at most len(s) times.
C2_EveryIterationAdvances ==
    pc \in {"loop", "done"} => iters <= i /\ iters <= Len(s)

\* C3: String returns prefix + '"' + the elements' escapes in input order +
\* '"': while scanning, what has been written is the beginning of that
\* result (no element dropped, duplicated or reordered), and on return it is
\* that result.
C3_StringEscapesInOrder ==
    /\ pc = "loop" => IsPrefix(buf, Escaped(elems, prefix))
    /\ pc = "done" => buf = Escaped(elems, prefix)

\* ------------------------------------------- EncSpec: one encoder call
Texts == { <<>>, <<97>>, <<60, 97, 10>>, <<97, 226, 128, 168>> }

Ints == { 0, 7, -1, -120, 2147483647 }
Uints == { 0, 9, 4096 }

Fin(neg, d, dp) == [class |-> "fin", neg |-> neg, d |-> d, dp |-> dp]
Floats ==
    { [class |-> "nan", neg |-> FALSE, d |-> <<>>, dp |-> 0],
      [class |-> "inf", neg |-> FALSE, d |-> <<>>, dp |-> 0],
      [class |-> "inf", neg |-> TRUE, d |-> <<>>, dp |-> 0],
      Fin(FALSE, <<>>, 0),              \* 0
      Fin(TRUE, <<>>, 0),               \* -0
      Fin(FALSE, <<1>>, 1),             \* 1
      Fin(TRUE, <<1, 2, 3, 2, 5>>, 3),  \* -123.25
      Fin(FALSE, <<1>>, 21),            \* 1e20
      Fin(FALSE, <<1>>, 22),            \* 1e21
      Fin(FALSE, <<1>>, -5),            \* 1e-6
      Fin(FALSE, <<5>>, -6),            \* 5e-7
      Fin(TRUE, <<1, 2, 5>>, -8),       \* -1.25e-9
      Fin(FALSE, <<1, 5>>, -9),         \* 1.5e-10
      Fin(FALSE, <<1>>, -99) }          \* 1e-100

At(y, ns, off) == [year |-> y, month |-> 2, day |-> 28, hour |-> 23, min |-> 5,
                   sec |-> 9, nsec |-> ns, off |-> off]
Times ==
    { At(-1, 0, 0), At(0, 0, 0), At(2024, 120000000, 0), At(2024, 0, -330),
      At(9999, 999999999, 60), At(10000, 0, 0), At(10000, 5, 60) }

Custom(a, m, out, err) ==
    [type |-> "custom", appender |-> a, marshaler |-> m, out |-> out, err |-> err]

\* The values without entries.
Leaves ==
    { [type |-> "string", v |-> x] : x \in Texts }
    \cup { [type |-> "float64", v |-> f] :
             f \in { Fin(FALSE, <<5>>, -6), Fin(FALSE, <<1>>, 1),
                     [class |-> "nan", neg |-> FALSE, d |-> <<>>, dp |-> 0] } }
    \cup { [type |-> ty, v |-> -120] : ty \in {"int64", "int", "int8", "int16", "int32"} }
    \cup { [type |-> ty, v |-> 9] : ty \in {"uint64", "uint", "uint8", "uint16", "uint32"} }
    \cup { [type |-> "time.Time", v |-> x] : x \in { At(2024, 0, -330), At(10000, 0, 0) } }
    \cup { [type |-> "bool", v |-> TRUE], [type |-> "nil"] }
    \cup { Custom(TRUE, TRUE, <<49>>, "nil"),       \* appends 1
           Custom(TRUE, FALSE, <<91>>, "custom"),   \* fails after appending [
           Custom(FALSE, TRUE, <<50>>, "nil"),      \* marshals to 2
           Custom(FALSE, TRUE, <<>>, "custom"),     \* MarshalJSON fails
           Custom(FALSE, FALSE, <<51>>, "nil"),     \* json.Marshal gives 3
           Custom(FALSE, FALSE, <<>>, "marshal") }  \* json.Marshal fails

\* The entries of the inner containers.
Core ==
    { [type |-> "int", v |-> -120],
      [type |-> "float64", v |-> [class |-> "nan", neg |-> FALSE, d |-> <<>>, dp |-> 0]],
      [type |-> "time.Time", v |-> At(10000, 0, 0)],
      [type |-> "string", v |-> <<60, 97, 10>>] }

Keys == { <<97>>, <<98, 34>> }

\* The entry sequences of a map over the values V: distinct keys, any order.
MapsOver(V, n) ==
    { m \in SeqsUpTo(Keys \X V, n) :
        \A j, k \in 1..Len(m) : j # k => m[j][1] # m[k][1] }

Inner ==
    { [type |-> "slice", v |-> x] : x \in SeqsUpTo(Core, 1) }
    \cup { [type |-> "map", v |-> m] : m \in MapsOver(Core, 1) }

Values == Leaves \cup Inner

Slices == SeqsUpTo(Values, MaxEntries)
Maps == MapsOver(Values, MaxEntries)

EncInit == call = NoCall /\ StringIdle /\ BWIdle

\* The record of a call of an encoder without an error result.
Plain(fn, arg, b, out) ==
    /\ call' = [fn |-> fn, arg |-> arg, in |-> b, out |-> out, err |-> "nil"]
    /\ UNCHANGED stringVars /\ UNCHANGED bwVars

\* The record of a call of an encoder that returns a buffer and an error.
Failing(fn, arg, b, r) ==
    /\ call' = [fn |-> fn, arg |-> arg, in |-> b, out |-> r.buf, err |-> r.err]
    /\ UNCHANGED stringVars /\ UNCHANGED bwVars

CallInt64 ==
    /\ call = NoCall
    /\ \E v \in Ints, b \in Prefixes : Plain("Int64", v, b, Int64(v, b))
CallUint64 ==
    /\ call = NoCall
    /\ \E v \in Uints, b \in Prefixes : Plain("Uint64", v, b, Uint64(v, b))
CallBool ==
    /\ call = NoCall
    /\ \E v \in BOOLEAN, b \in Prefixes : Plain("Bool", v, b, Bool(v, b))
CallString ==
    /\ call = NoCall
    /\ \E v \in Texts, b \in Prefixes :
        StringReturns(v) /\ Plain("String", v, b, String(v, b))
CallFieldName ==
    /\ call = NoCall
    /\ \E v \in Texts, b \in Prefixes :
        StringReturns(v) /\ Plain("FieldName", v, b, FieldName(v, b))
CallTime ==
    /\ call = NoCall
    /\ \E v \in Times, b \in Prefixes : Failing("Time", v, b, Time(v, b))
CallFloat64 ==
    /\ call = NoCall
    /\ \E v \in Floats, b \in Prefixes : Failing("Float64", v, b, Float64(v, b))
CallValue ==
    /\ call = NoCall
    /\ \E v \in Values, b \in Prefixes :
        ValueReturns(v) /\ Failing("Value", v, b, Value(v, b))
CallObject ==
    /\ call = NoCall
    /\ \E v \in Maps, b \in Prefixes :
        EntriesReturn(v, 0, TRUE) /\ Failing("Object", v, b, Object(v, b))
CallArray ==
    /\ call = NoCall
    /\ \E v \in Slices, b \in Prefixes :
        EntriesReturn(v, 0, FALSE) /\ Failing("Array", v, b, Array(v, b))

EncNext ==
    \/ CallInt64 \/ CallUint64 \/ CallBool \/ CallString \/ CallFieldName
    \/ CallTime \/ CallFloat64 \/ CallValue \/ CallObject \/ CallArray

EncSpec == EncInit /\ [][EncNext]_vars

\* ------------------------------------------------------ claims on EncSpec
OutOfRange(t) == t.year < 0 \/ t.year >= 10000

\* C1: for a time whose year is negative or >= 10000 and for every input
\* buffer, Time returns an error and the returned buffer is the input buffer
\* unmodified.
C1_TimeFailureReturnsInputBuffer ==
    (call.fn = "Time" /\ OutOfRange(call.arg))
        => call.err # "nil" /\ call.out = call.in

\* C4: Float64 returns an error exactly for NaN, +Inf and -Inf, and then the
\* returned buffer is the input buffer unmodified.
C4_Float64FailsOnlyOnNonFinite ==
    call.fn = "Float64" =>
        /\ call.err # "nil" <=> call.arg.class \in {"nan", "inf"}
        /\ call.err # "nil" => call.out = call.in

\* A NaN was rejected on a non-empty buffer.
C4_Witness ==
    /\ call.fn = "Float64" /\ call.arg.class = "nan"
    /\ call.in # <<>> /\ call.err = "float" /\ call.out = call.in

\* The parts joined by single commas.
RECURSIVE JoinComma(_)
JoinComma(parts) ==
    IF parts = <<>> THEN <<>>
    ELSE IF Len(parts) = 1 THEN parts[1]
    ELSE parts[1] \o <<44>> \o JoinComma(Tail(parts))

\* The encoding of one entry on its own.
Enc(v) == Value(v, <<>>)
EntryEnc(e) == String(e[1], <<>>) \o <<58>> \o Enc(e[2]).buf

ArrayParts(slice, n) == [k \in 1..n |-> Enc(slice[k]).buf]
ObjectParts(mp, n) == [k \in 1..n |-> EntryEnc(mp[k])]

\* C6: when every entry encodes without error, Array appends '[' + the Value
\* encodings in input order separated by n-1 commas + ']', and Object '{' +
\* the n entries String(key) ':' Value(value), each key once, separated by
\* n-1 commas + '}'; '[]' and '{}' for n = 0.
C6_ContainersDelimitEntries ==
    /\ (call.fn = "Array" /\ \A k \in 1..Len(call.arg) : Enc(call.arg[k]).err = "nil")
         => /\ call.err = "nil"
            /\ call.out = call.in \o <<91>>
                            \o JoinComma(ArrayParts(call.arg, Len(call.arg)))
                            \o <<93>>
    /\ (call.fn = "Object" /\ \A k \in 1..Len(call.arg) : Enc(call.arg[k][2]).err = "nil")
         => /\ call.err = "nil"
            /\ call.out = call.in \o <<123>>
                            \o JoinComma(ObjectParts(call.arg, Len(call.arg)))
                            \o <<125>>

\* An Object of two entries, one of them a container, was encoded.
C6_Witness ==
    /\ call.fn = "Object" /\ Len(call.arg) = 2 /\ call.err = "nil"
    /\ call.arg[2][2].type = "slice" /\ Len(call.arg[2][2].v) = 1
    /\ call.in # <<>>

\* The first entry of es whose encoding fails.
FirstFailing(es, isMap) ==
    CHOOSE k \in 1..Len(es) :
        /\ Enc(IF isMap THEN es[k][2] ELSE es[k]).err # "nil"
        /\ \A j \in 1..(k - 1) : Enc(IF isMap THEN es[j][2] ELSE es[j]).err = "nil"

\* C7: when an entry of an Array or Object fails, the encoder stops there:
\* what is returned is what the failing entry's encoder returned on the
\* buffer built from the entries before it, with that entry's error; no later
\* entry is encoded and no closing ']' or '}' is appended.
C7_ContainersStopAtFirstError ==
    /\ (call.fn = "Array" /\ call.err # "nil") =>
         LET k == FirstFailing(call.arg, FALSE)
             before == call.in \o <<91>> \o JoinComma(ArrayParts(call.arg, k - 1))
                         \o (IF k > 1 THEN <<44>> ELSE <<>>)
             r == Value(call.arg[k], before)
         IN  call.out = r.buf /\ call.err = r.err /\ call.err = Enc(call.arg[k]).err
    /\ (call.fn = "Object" /\ call.err # "nil") =>
         LET k == FirstFailing(call.arg, TRUE)
             before == call.in \o <<123>> \o JoinComma(ObjectParts(call.arg, k - 1))
                         \o (IF k > 1 THEN <<44>> ELSE <<>>)
                         \o String(call.arg[k][1], <<>>) \o <<58>>
             r == Value(call.arg[k][2], before)
         IN  call.out = r.buf /\ call.err = r.err /\ call.err = Enc(call.arg[k][2]).err

\* An Array failed in a nested Object, its first entry, with an entry after.
C7_Witness ==
    /\ call.fn = "Array" /\ Len(call.arg) = 2 /\ call.err = "float"
    /\ call.arg[1].type = "map" /\ Enc(call.arg[1]).err = "float"
    /\ call.out = call.in \o <<91, 123, 34, 97, 34, 58>>

\* C8: every successful call of an encoder returns a buffer that begins with
\* the buffer passed in; Float64's exponent clean-up rewrites only bytes at
\* or after the call's start index.
C8_EncodersOnlyAppend ==
    (call.fn # "none" /\ call.err = "nil") => IsPrefix(call.in, call.out)

\* Float64 cleaned 5e-07 to 5e-7 behind a non-empty buffer.
C8_Witness ==
    /\ call.fn = "Float64" /\ call.in # <<>> /\ call.err = "nil"
    /\ call.arg = Fin(FALSE, <<5>>, -6)
    /\ call.out = call.in \o <<53, 101, 45, 55>>

\* C9 as stated: a value of any integer width is handed to the integer
\* encoder and never reaches the fallback, which only takes values that are
\* none of text, float64, integer, timestamp, mapping, sequence,
\* self-appending or marshalable.
C9_EveryIntegerWidthDispatched ==
    call.fn = "Value" =>
        /\ call.arg.type \in SignedTypes \cup UnsignedTypes
             => ValueCase(call.arg) # "default"
        /\ ValueCase(call.arg) = "default"
             => /\ call.arg.type \notin {"string", "float64", "time.Time", "map", "slice"}
                                         \cup SignedTypes \cup UnsignedTypes
                /\ call.arg.type = "custom"
                     => ~call.arg.appender /\ ~call.arg.marshaler

\* C9 as amended: int64 and int go to Int64, uint64 and uint to Uint64, and
\* never to the fallback; the 8, 16 and 32 bit integer types take the
\* fallback; the fallback only takes values that are none of text, float64,
\* int64, int, uint64, uint, timestamp, mapping, sequence, self-appending or
\* marshalable.
C9_Int64IntUint64UintDispatched ==
    call.fn = "Value" =>
        /\ call.arg.type \in {"int64", "int"}
             => ValueCase(call.arg) = call.arg.type
                /\ call.err = "nil" /\ call.out = Int64(call.arg.v, call.in)
        /\ call.arg.type \in {"uint64", "uint"}
             => ValueCase(call.arg) = call.arg.type
                /\ call.err = "nil" /\ call.out = Uint64(call.arg.v, call.in)
        /\ call.arg.type \in {"int8", "int16", "int32", "uint8", "uint16", "uint32"}
             => ValueCase(call.arg) = "default"
        /\ ValueCase(call.arg) = "default"
             => /\ call.arg.type \notin {"string", "float64", "int64", "int", "uint64",
                                         "uint", "time.Time", "map", "slice"}
                /\ call.arg.type = "custom"
                     => ~call.arg.appender /\ ~call.arg.marshaler

\* Value encoded an int through Int64.
C9_Witness ==
    /\ call.fn = "Value" /\ call.arg.type = "int" /\ call.arg.v = -120
    /\ call.out = call.in \o <<45, 49, 50, 48>>

\* --------------------------------------------------------- BufWriter
(***************************************************************************)
(* bw.writer is a bufio.Writer over the sink.  sink holds the bytes the    *)
(* writer has accepted from Write, WriteString and WriteByte.  A write     *)
(* fails when the writer has to pass bytes on and the sink's I/O fails:    *)
(* it then accepts only a part of what it was handed and returns the       *)
(* error.  An error is "nil" or the name of the failure.                   *)
(***************************************************************************)
IOErrors == {"io1", "io2"}

\* The scratch buffer reused with what the last operation left in it.
ScratchKeepsContent(sb) == sb

\* bw.stringBuf[:0]: the scratch buffer, emptied.
Scratch(sb) == Slice(sb, 0, 0)

\* The operations and the arguments they are called with.
RawArgs == { <<>>, <<123, 34>> }
FieldNames == { <<97>>, <<98, 34>>, <<226, 128, 169>> }
StringArgs == { <<60, 97, 10>>, <<97, 226, 128, 168>> }
TimeArgs == { At(2024, 0, -330), At(10000, 0, 0) }
FloatArgs == { Fin(FALSE, <<5>>, -6), [class |-> "nan", neg |-> FALSE, d |-> <<>>, dp |-> 0] }
IntV == [type |-> "int", v |-> -120]
NaNV == [type |-> "float64", v |-> [class |-> "nan", neg |-> FALSE, d |-> <<>>, dp |-> 0]]
ValueArgs == { [type |-> "nil"], Custom(TRUE, FALSE, <<91>>, "custom"),
               [type |-> "slice", v |-> <<IntV, NaNV>>] }
ObjectArgs == { << <<<<97>>, IntV>>, <<<<98, 34>>, [type |-> "bool", v |-> TRUE]>> >>,
                << <<<<98, 34>>, IntV>>, <<<<97>>, NaNV>> >> }
ArrayArgs == { <<>>, <<IntV, [type |-> "string", v |-> <<97>>]>>,
               <<IntV, [type |-> "time.Time", v |-> At(10000, 0, 0)]>>,
               <<IntV, NaNV, IntV>> }

BWInit ==
    /\ Error = "nil"
    /\ writer \in {"bound", "nil"}      \* NewBufWriter(w), or the zero BufWriter
    /\ stringBuf = <<>> /\ sink = <<>> /\ flushCalls = 0
    /\ ret = "none" /\ last = NoOp /\ nops = 0
    /\ StringIdle /\ EncIdle

\* Every operation: one more operation was performed.  When Error is nil the
\* operation uses bw.writer, which the zero BufWriter does not have.
Op(op, arg, handed) ==
    /\ last' = [op |-> op, arg |-> arg, handed |-> handed]
    /\ nops' = nops + 1
    /\ UNCHANGED stringVars /\ UNCHANGED call

CanRun == nops < MaxOps /\ (Error = "nil" => writer = "bound")

\* if bw.Error != nil { return }
Skip(op, arg) ==
    /\ Error # "nil"
    /\ Op(op, arg, <<>>)
    /\ UNCHANGED <<Error, writer, stringBuf, sink, flushCalls, ret>>

\* _, bw.Error = bw.writer.Write(p): all of p is accepted, or the write fails
\* after a part of it.
WriterWrite(p) ==
    \/ sink' = sink \o p /\ Error' = "nil"
    \/ \E e \in IOErrors : sink' = sink \o SubSeq(p, 1, Len(p) \div 2) /\ Error' = e

\* An operation that formats val and writes it without the scratch buffer.
WriteDirect(op, arg, p) ==
    /\ CanRun
    /\ \/ Skip(op, arg)
       \/ /\ Error = "nil"
          /\ WriterWrite(p)
          /\ Op(op, arg, <<p>>)
          /\ UNCHANGED <<writer, stringBuf, flushCalls, ret>>

\* An operation that encodes into the scratch buffer: r is what the encoder
\* returned on bw.stringBuf[:0].
WriteEncoded(op, arg, r) ==
    /\ CanRun
    /\ \/ Skip(op, arg)
       \/ /\ Error = "nil"
          /\ stringBuf' = r.buf
          /\ IF r.err # "nil"
             THEN Error' = r.err /\ sink' = sink /\ Op(op, arg, <<>>)
             ELSE WriterWrite(r.buf) /\ Op(op, arg, <<r.buf>>)
          /\ UNCHANGED <<writer, flushCalls, ret>>

\* Flush without the check of bw.Error: it flushes and overwrites Error.
BWFlushNoGuard ==
    /\ nops < MaxOps
    /\ writer = "bound"
    /\ \E e \in {"nil"} \cup IOErrors : Error' = e /\ ret' = e
    /\ flushCalls' = flushCalls + 1
    /\ Op("Flush", <<>>, <<>>)
    /\ UNCHANGED <<writer, stringBuf, sink>>

\* BufWriter.Flush
BWFlush ==
    /\ nops < MaxOps
    /\ IF Error # "nil"
       THEN /\ ret' = Error
            /\ UNCHANGED <<Error, flushCalls>>
       ELSE /\ writer = "bound"
            /\ \E e \in {"nil"} \cup IOErrors : Error' = e /\ ret' = e
            /\ flushCalls' = flushCalls + 1
    /\ Op("Flush", <<>>, <<>>)
    /\ UNCHANGED <<writer, stringBuf, sink>>

\* BufWriter.Reset(w): Error is cleared and the writer bound to the new sink
\* w, which has accepted nothing.
BWReset ==
    /\ nops < MaxOps
    /\ Error' = "nil"
    /\ writer' = "bound"
    /\ sink' = <<>>
    /\ Op("Reset", <<>>, <<>>)
    /\ UNCHANGED <<stringBuf, flushCalls, ret>>

BWRaw == \E v \in RawArgs : WriteDirect("Raw", v, v)
BWRawString == \E v \in RawArgs : WriteDirect("RawString", v, v)
BWRawByte == \E v \in {44} : WriteDirect("RawByte", v, <<v>>)
BWInt64 == \E v \in {-120} : WriteDirect("Int64", v, FormatInt(v))
BWUint64 == \E v \in {9} : WriteDirect("Uint64", v, FormatUint(v))
BWBool == \E v \in BOOLEAN : WriteDirect("Bool", v, Bool(v, <<>>))

\* BufWriter.FieldName: String into the scratch buffer, then ':'.
BWFieldName ==
    \E v \in FieldNames :
        /\ StringReturns(v)
        /\ WriteEncoded("FieldName", v,
                        [buf |-> String(v, Scratch(stringBuf)) \o <<58>>, err |-> "nil"])

BWString ==
    \E v \in StringArgs :
        /\ StringReturns(v)
        /\ WriteEncoded("String", v,
                        [buf |-> String(v, Scratch(stringBuf)), err |-> "nil"])

BWTime == \E v \in TimeArgs : WriteEncoded("Time", v, Time(v, Scratch(stringBuf)))

BWFloat64 == \E v \in FloatArgs : WriteEncoded("Float64", v, Float64(v, Scratch(stringBuf)))

BWValue ==
    \E v \in ValueArgs :
        ValueReturns(v) /\ WriteEncoded("Value", v, Value(v, Scratch(stringBuf)))

BWObject ==
    \E v \in ObjectArgs :
        EntriesReturn(v, 0, TRUE) /\ WriteEncoded("Object", v, Object(v, Scratch(stringBuf)))

BWArray ==
    \E v \in ArrayArgs :
        EntriesReturn(v, 0, FALSE) /\ WriteEncoded("Array", v, Array(v, Scratch(stringBuf)))

BWNext ==
    \/ BWFlush \/ BWReset \/ BWRaw \/ BWRawString \/ BWRawByte
    \/ BWInt64 \/ BWUint64 \/ BWFieldName \/ BWBool \/ BWTime \/ BWFloat64
    \/ BWValue \/ BWObject \/ BWArray \/ BWString

BWSpec == BWInit /\ [][BWNext]_vars

\* ------------------------------------------------------- claims on BWSpec
\* C5: once Error is non-nil, every operation but Reset leaves Error at that
\* first error, hands the sink no byte and no flush, and Flush returns the
\* latched error; only Reset clears Error.
C5_ErrorIsSticky ==
    [][Error # "nil" =>
          /\ last'.op # "Reset"
               => Error' = Error /\ sink' = sink /\ flushCalls' = flushCalls
          /\ (last'.op = "Flush" /\ nops' = nops + 1) => ret' = Error]_vars

\* A write failed, and a later Flush returned its error without flushing.
C5_Witness ==
    /\ Error \in IOErrors /\ last.op = "Flush" /\ ret = Error
    /\ flushCalls = 0 /\ nops >= 2

EncodeOps == {"Time", "Float64", "Value", "Object", "Array"}

\* What the stateless encoder of the operation returns for arg by itself.
EncodingOf(op, arg) ==
    CASE op = "Time" -> Time(arg, <<>>)
      [] op = "Float64" -> Float64(arg, <<>>)
      [] op = "Value" -> Value(arg, <<>>)
      [] op = "Object" -> Object(arg, <<>>)
      [] op = "Array" -> Array(arg, <<>>)

\* C10: Time, Float64, Value, Object and Array of a BufWriter without an
\* error are all-or-nothing: when the encoding fails the writer is handed
\* nothing and the sink keeps its bytes; when it succeeds the writer is handed
\* exactly the encoding of that value, and the sink gains exactly it unless
\* the write itself fails.
C10_EncodeAllOrNothing ==
    [][(Error = "nil" /\ nops' = nops + 1 /\ last'.op \in EncodeOps) =>
          LET r == EncodingOf(last'.op, last'.arg)
          IN  IF r.err # "nil"
              THEN last'.handed = <<>> /\ sink' = sink /\ Error' = r.err
              ELSE /\ last'.handed = <<r.buf>>
                   /\ IsPrefix(sink, sink')
                   /\ Error' = "nil" => sink' = sink \o r.buf]_vars

\* An Array failed at its second entry after the first was encoded into the
\* scratch buffer, and the sink still holds only the earlier operation's bytes.
C10_Witness ==
    /\ last.op = "Array" /\ last.handed = <<>> /\ Error = "float"
    /\ stringBuf = <<91, 45, 49, 50, 48, 44>>
    /\ sink = <<34, 97, 34, 58>>

=============================================================================
